---- MODULE Spec2Model ----
(***************************************************************************)
(* A model of the MultiSender Stylus contract, in its two variants:        *)
(*   "typed"  : packages/stylus/MultiSender/src/lib.rs  (Result<(), Error>) *)
(*   "silent" : packages/stylus/multi-sender/src/lib.rs (plain return)      *)
(* One transaction (one external call into the contract) is one action.    *)
(* The handlers are operators over a record of the chain state, written in *)
(* the order of the source; every effect a handler has on the outside      *)
(* (transfer attempts, ledger calls, storage writes, logs) is appended to  *)
(* its trace in program order.                                             *)
(***************************************************************************)
EXTENDS Integers, Sequences, FiniteSets, TLC

VARIABLES
    variant,                 \* which of the two contracts is deployed
    owner,                   \* storage: owner / ownable
    total_transactions,      \* storage: uint256 total_transactions
    total_recipients,        \* storage: uint256 total_recipients
    user_transaction_count,  \* storage: mapping(address => uint256)
    balance,                 \* native balance of every account (the VM's ledger)
    calls,                   \* number of transactions executed so far
    emitted,                 \* the chain's log: the per-recipient notifications
                             \* counted, and the aggregate notifications:
                             \* how many, and the sum of their recipientCount
    last                     \* the transaction just executed: inputs, state before
                             \* it, result and trace, until its receipt is read

vars == <<variant, owner, total_transactions, total_recipients,
          user_transaction_count, balance, calls, emitted, last>>

----------------------------------------------------------------------------
(* Bounds of the model. *)

\* U256 is modelled as the integers modulo Modulus (2^256 in the program).
Modulus == 4
\* Longest recipients / amounts vector a transaction carries.
MaxLen == 2
\* Number of transactions in a behaviour.
MaxCalls == 2
\* Native balance every user account starts with.
InitBalance == 3
\* Largest recipient count handed to the cost estimators.
MaxCount == 3

----------------------------------------------------------------------------
(* Addresses. *)

ZERO == "0x0"
Users == {"alice", "bob"}
Self == "contract"
Token == "token"
Address == {ZERO} \cup Users
Accounts == Address \cup {Self}
U256 == 0 .. (Modulus - 1)

\* ruint's `+` and `-` on U256 are wrapping_add / wrapping_sub.
wrapping_add(a, b) == (a + b) % Modulus
wrapping_sub(a, b) == (a - b + Modulus) % Modulus

SeqsUpTo(S, n) == UNION {[1 .. k -> S] : k \in 0 .. n}

----------------------------------------------------------------------------
(* Effects, in the order the handler produces them. *)

Eff(kind, addr, amount, reason) ==
    [kind |-> kind, addr |-> addr, amount |-> amount, reason |-> reason,
     token |-> ZERO, n |-> 0]

\* log(vm, TransferFailed { recipient, amount, reason })
TransferFailed(recipient, amount, reason) ==
    Eff("TransferFailed", recipient, amount, reason)

\* log(vm, TransferSuccess { recipient, amount })
TransferSuccess(recipient, amount) ==
    Eff("TransferSuccess", recipient, amount, "")

\* vm.transfer_eth(to, amount) and how it ended
TransferEthEff(to, amount, ok) ==
    Eff("transfer_eth", to, amount, IF ok THEN "ok" ELSE "err")

\* vm.call_contract(token, transferFrom(from, to, amount)) and its response
CallContractEff(token, from, to, amount, resp) ==
    [kind |-> "call_contract", addr |-> to, amount |-> amount, reason |-> resp,
     token |-> token, n |-> 0, from |-> from]

\* a storage write
StoreEff(slot) == Eff(slot, ZERO, 0, "")

\* log(vm, BatchEthTransfer { sender, totalAmount, recipientCount })
BatchEthTransfer(sender, totalAmount, recipientCount) ==
    [kind |-> "BatchEthTransfer", addr |-> sender, amount |-> totalAmount,
     reason |-> "", token |-> ZERO, n |-> recipientCount]

\* log(vm, BatchTokenTransfer { sender, token, totalAmount, recipientCount })
BatchTokenTransfer(sender, token, totalAmount, recipientCount) ==
    [kind |-> "BatchTokenTransfer", addr |-> sender, amount |-> totalAmount,
     reason |-> "", token |-> token, n |-> recipientCount]

----------------------------------------------------------------------------
(* The chain state a handler works on. *)

State(o, tt, tr, utc, bal) ==
    [owner |-> o, total_transactions |-> tt, total_recipients |-> tr,
     user_transaction_count |-> utc, balance |-> bal]

Cur == State(owner, total_transactions, total_recipients,
             user_transaction_count, balance)

\* The VM moves the value attached to a payable call before the handler runs.
Credit(bal, sender, msg_value) ==
    [bal EXCEPT ![sender] = @ - msg_value, ![Self] = @ + msg_value]

\* vm.transfer_eth(to, amount): a call carrying value out of the contract's
\* balance.  It fails when the contract holds less than amount or when the
\* callee rejects it (accepts = FALSE).
transfer_eth_ok(bal, amount, accepts) == accepts /\ bal[Self] >= amount

transfer_eth(bal, to, amount, accepts) ==
    IF transfer_eth_ok(bal, amount, accepts)
    THEN [bal EXCEPT ![Self] = @ - amount, ![to] = @ + amount]
    ELSE bal

----------------------------------------------------------------------------
(* What a handler hands back: the state it leaves, what it returned, and   *)
(* its effects in program order.                                           *)

Outcome(st, result, trace) == [st |-> st, result |-> result, trace |-> trace]

\* A typed-error handler returning Err(e): the VM reverts the call, so the
\* storage writes, the logs, the transfers and the attached value are undone.
Revert(st0, e) == Outcome(st0, e, <<>>)

\* `for amount in &amounts { if *amount == ZERO { return ... } total_amount += *amount; }`
RECURSIVE SumAmounts(_, _, _)
SumAmounts(amounts, i, total_amount) ==
    IF i > Len(amounts) THEN [zero |-> FALSE, total_amount |-> total_amount]
    ELSE IF amounts[i] = 0 THEN [zero |-> TRUE, total_amount |-> total_amount]
    ELSE SumAmounts(amounts, i + 1, wrapping_add(total_amount, amounts[i]))

\* EthStep without the `recipient == Address::ZERO` guard.
EthStep_NoNullCheck(recipient, amount, accepts, acc) ==
    IF transfer_eth_ok(acc.balance, amount, accepts)
    THEN [balance |-> transfer_eth(acc.balance, recipient, amount, accepts),
          successful_transfers |-> acc.successful_transfers + 1,
          trace |-> acc.trace \o <<TransferEthEff(recipient, amount, TRUE),
                                   TransferSuccess(recipient, amount)>>]
    ELSE [acc EXCEPT !.trace =
            @ \o <<TransferEthEff(recipient, amount, FALSE),
                   TransferFailed(recipient, amount, "Transfer failed")>>]

\* EthStep with the Err arm also counting the transfer as successful.
EthStep_CountsFailure(recipient, amount, accepts, acc) ==
    IF recipient = ZERO
    THEN [acc EXCEPT !.trace =
            Append(@, TransferFailed(recipient, amount, "Invalid recipient address"))]
    ELSE IF transfer_eth_ok(acc.balance, amount, accepts)
    THEN [balance |-> transfer_eth(acc.balance, recipient, amount, accepts),
          successful_transfers |-> acc.successful_transfers + 1,
          trace |-> acc.trace \o <<TransferEthEff(recipient, amount, TRUE),
                                   TransferSuccess(recipient, amount)>>]
    ELSE [acc EXCEPT !.successful_transfers = @ + 1,
                     !.trace =
            @ \o <<TransferEthEff(recipient, amount, FALSE),
                   TransferFailed(recipient, amount, "Transfer failed")>>]

\* One pass of the native transfer loop for position i, on the loop's
\* accumulator acc = [balance, successful_transfers, trace].
EthStep(recipient, amount, accepts, acc) ==
    IF recipient = ZERO
    THEN [acc EXCEPT !.trace =
            Append(@, TransferFailed(recipient, amount, "Invalid recipient address"))]
    ELSE IF transfer_eth_ok(acc.balance, amount, accepts)
    THEN [balance |-> transfer_eth(acc.balance, recipient, amount, accepts),
          successful_transfers |-> acc.successful_transfers + 1,
          trace |-> acc.trace \o <<TransferEthEff(recipient, amount, TRUE),
                                   TransferSuccess(recipient, amount)>>]
    ELSE [acc EXCEPT !.trace =
            @ \o <<TransferEthEff(recipient, amount, FALSE),
                   TransferFailed(recipient, amount, "Transfer failed")>>]

\* `for (i, &recipient) in recipients.iter().enumerate() { ... }`
\* (the loop is the same text in both variants)
RECURSIVE EthLoop(_, _, _, _, _)
\* EthLoop leaving the loop at the first recipient that is not served
\* (`break` / `return` in place of `continue`).
RECURSIVE EthLoop_StopsAtFailure(_, _, _, _, _)
EthLoop_StopsAtFailure(recipients, amounts, accepts, i, acc) ==
    IF i > Len(recipients) THEN acc
    ELSE LET nxt == EthStep(recipients[i], amounts[i], accepts[i], acc)
         IN  IF nxt.successful_transfers = acc.successful_transfers THEN nxt
             ELSE EthLoop_StopsAtFailure(recipients, amounts, accepts, i + 1, nxt)

EthLoop(recipients, amounts, accepts, i, acc) ==
    IF i > Len(recipients) THEN acc
    ELSE EthLoop(recipients, amounts, accepts, i + 1,
                 EthStep(recipients[i], amounts[i], accepts[i], acc))

\* UpdateStatistics writing 1 to total_transactions instead of current + 1.
UpdateStatistics_SetsOne(st, sender, successful_transfers) ==
    [st EXCEPT !.total_transactions = 1,
               !.total_recipients = @ + successful_transfers,
               !.user_transaction_count =
                    [@ EXCEPT ![sender] = @ + 1]]

\* The statistics update storing the batch's tally as the recipient total.
UpdateStatistics_ResetsRecipients(st, sender, successful_transfers) ==
    [st EXCEPT !.total_transactions = @ + 1,
               !.total_recipients = successful_transfers,
               !.user_transaction_count[sender] = @ + 1]

\* The statistics update without the write of the sender's count.
UpdateStatistics_SkipsSender(st, sender, successful_transfers) ==
    [st EXCEPT !.total_transactions = @ + 1,
               !.total_recipients = @ + successful_transfers]

\* "Update statistics": the three storage writes after the loop.  The
\* counters are U256 too, but they grow by one per transaction and cannot
\* come near 2^256, so they are modelled without wrap-around.
UpdateStatistics(st, sender, successful_transfers) ==
    [st EXCEPT !.total_transactions = @ + 1,
               !.total_recipients = @ + successful_transfers,
               !.user_transaction_count =
                    [@ EXCEPT ![sender] = @ + 1]]

StatsTrace == <<StoreEff("set_total_transactions"),
                StoreEff("set_total_recipients"),
                StoreEff("insert_user_transaction_count")>>

\* "Return excess ETH if any": `let _ = transfer_eth(sender, excess)`.
Refund(acc, sender, excess, accepts) ==
    IF excess > 0
    THEN [acc EXCEPT
            !.balance = transfer_eth(@, sender, excess, accepts),
            !.trace = Append(@, TransferEthEff(sender, excess,
                                   transfer_eth_ok(acc.balance, excess, accepts)))]
    ELSE acc

\* EthBody returning the value not delivered (msg_value minus what the loop
\* moved) in place of msg_value - total_amount.
EthBody_RefundsUndelivered(st, sender, msg_value, recipients, amounts, total_amount, accepts, refund_accepts) ==
    LET looped == EthLoop(recipients, amounts, accepts, 1,
                          [balance |-> st.balance, successful_transfers |-> 0,
                           trace |-> <<>>])
        stored == UpdateStatistics([st EXCEPT !.balance = looped.balance],
                                   sender, looped.successful_transfers)
        logged == [balance |-> stored.balance,
                   successful_transfers |-> looped.successful_transfers,
                   trace |-> looped.trace \o StatsTrace \o
                       <<BatchEthTransfer(sender, total_amount,
                                          looped.successful_transfers)>>]
        delivered == st.balance[Self] - looped.balance[Self]
        excess == wrapping_sub(msg_value, delivered % Modulus)
        done == Refund(logged, sender, excess, refund_accepts)
    IN  [st |-> [stored EXCEPT !.balance = done.balance], trace |-> done.trace]

\* EthBody returning the excess right after the loop, before the statistics
\* update and the BatchEthTransfer log.
EthBody_RefundFirst(st, sender, msg_value, recipients, amounts, total_amount, accepts, refund_accepts) ==
    LET looped == EthLoop(recipients, amounts, accepts, 1,
                          [balance |-> st.balance, successful_transfers |-> 0,
                           trace |-> <<>>])
        excess == wrapping_sub(msg_value, total_amount)
        refunded == Refund(looped, sender, excess, refund_accepts)
        stored == UpdateStatistics([st EXCEPT !.balance = refunded.balance],
                                   sender, looped.successful_transfers)
    IN  [st |-> stored,
         trace |-> refunded.trace \o StatsTrace \o
                       <<BatchEthTransfer(sender, total_amount,
                                          looped.successful_transfers)>>]

\* Everything after the precondition checks of batch_send_eth (the same
\* text in both variants): st already holds the attached value.
EthBody(st, sender, msg_value, recipients, amounts, total_amount, accepts, refund_accepts) ==
    LET looped == EthLoop(recipients, amounts, accepts, 1,
                          [balance |-> st.balance, successful_transfers |-> 0,
                           trace |-> <<>>])
        stored == UpdateStatistics([st EXCEPT !.balance = looped.balance],
                                   sender, looped.successful_transfers)
        logged == [balance |-> stored.balance,
                   successful_transfers |-> looped.successful_transfers,
                   trace |-> looped.trace \o StatsTrace \o
                       <<BatchEthTransfer(sender, total_amount,
                                          looped.successful_transfers)>>]
        excess == wrapping_sub(msg_value, total_amount)
        done == Refund(logged, sender, excess, refund_accepts)
    IN  [st |-> [stored EXCEPT !.balance = done.balance], trace |-> done.trace]

\* MultiSender::batch_send_eth of the typed-error variant.
batch_send_eth_typed(st0, sender, msg_value, recipients, amounts, accepts, refund_accepts) ==
    LET st == [st0 EXCEPT !.balance = Credit(@, sender, msg_value)]
        sum == SumAmounts(amounts, 1, 0)
    IN  IF Len(recipients) # Len(amounts) THEN Revert(st0, "ArrayLengthMismatch")
        ELSE IF Len(recipients) = 0 THEN Revert(st0, "InvalidRecipient")
        ELSE IF sum.zero THEN Revert(st0, "InvalidAmount")
        ELSE IF msg_value < sum.total_amount THEN Revert(st0, "InsufficientBalance")
        ELSE LET b == EthBody(st, sender, msg_value, recipients, amounts,
                              sum.total_amount, accepts, refund_accepts)
             IN  Outcome(b.st, "Ok", b.trace)

\* The silent batch_send_eth without its zero-amount return.
batch_send_eth_silent_AllowsZeroAmount(st0, sender, msg_value, recipients, amounts, accepts, refund_accepts) ==
    LET st == [st0 EXCEPT !.balance = Credit(@, sender, msg_value)]
        sum == SumAmounts(amounts, 1, 0)
    IN  IF Len(recipients) # Len(amounts) THEN Outcome(st, "()", <<>>)
        ELSE IF Len(recipients) = 0 THEN Outcome(st, "()", <<>>)
        ELSE IF msg_value < sum.total_amount THEN Outcome(st, "()", <<>>)
        ELSE LET b == EthBody(st, sender, msg_value, recipients, amounts,
                              sum.total_amount, accepts, refund_accepts)
             IN  Outcome(b.st, "()", b.trace)

\* MultiSender::batch_send_eth of the silent variant: every early `return;`
\* is a normal return, so the call succeeds and the attached value stays.
batch_send_eth_silent(st0, sender, msg_value, recipients, amounts, accepts, refund_accepts) ==
    LET st == [st0 EXCEPT !.balance = Credit(@, sender, msg_value)]
        sum == SumAmounts(amounts, 1, 0)
    IN  IF Len(recipients) # Len(amounts) THEN Outcome(st, "()", <<>>)
        ELSE IF Len(recipients) = 0 THEN Outcome(st, "()", <<>>)
        ELSE IF sum.zero THEN Outcome(st, "()", <<>>)
        ELSE IF msg_value < sum.total_amount THEN Outcome(st, "()", <<>>)
        ELSE LET b == EthBody(st, sender, msg_value, recipients, amounts,
                              sum.total_amount, accepts, refund_accepts)
             IN  Outcome(b.st, "()", b.trace)

----------------------------------------------------------------------------
(* Asset mode (typed-error variant only). *)

\* What vm.call_contract(token, transferFrom(..)) can come back with:
\* Err(_), Ok(bytes that do not decode as bool), Ok(false), Ok(true).
Responses == {"error", "undecodable", "false", "true"}

\* TokenStep taking a result that does not decode for a successful transfer.
TokenStep_UndecodableCounts(token, sender, recipient, amount, resp, acc) ==
    IF recipient = ZERO
    THEN [acc EXCEPT !.trace =
            Append(@, TransferFailed(recipient, amount, "Invalid recipient address"))]
    ELSE LET called == Append(acc.trace,
                         CallContractEff(token, sender, recipient, amount, resp))
         IN  IF resp = "error"
             THEN [acc EXCEPT !.trace = Append(called,
                     TransferFailed(recipient, amount, "Token contract call failed"))]
             ELSE IF resp \in {"true", "undecodable"}
             THEN [successful_transfers |-> acc.successful_transfers + 1,
                   trace |-> Append(called, TransferSuccess(recipient, amount))]
             ELSE [acc EXCEPT !.trace = Append(called,
                     TransferFailed(recipient, amount, "Token transfer returned false"))]

\* One pass of the token transfer loop, on acc = [successful_transfers, trace].
TokenStep(token, sender, recipient, amount, resp, acc) ==
    IF recipient = ZERO
    THEN [acc EXCEPT !.trace =
            Append(@, TransferFailed(recipient, amount, "Invalid recipient address"))]
    ELSE LET called == Append(acc.trace,
                         CallContractEff(token, sender, recipient, amount, resp))
         IN  IF resp = "error"
             THEN [acc EXCEPT !.trace = Append(called,
                     TransferFailed(recipient, amount, "Token contract call failed"))]
             ELSE IF resp = "undecodable"
             THEN [acc EXCEPT !.trace = Append(called,
                     TransferFailed(recipient, amount, "Failed to decode transfer result"))]
             ELSE IF resp = "true"
             THEN [successful_transfers |-> acc.successful_transfers + 1,
                   trace |-> Append(called, TransferSuccess(recipient, amount))]
             ELSE [acc EXCEPT !.trace = Append(called,
                     TransferFailed(recipient, amount, "Token transfer returned false"))]

RECURSIVE TokenLoop(_, _, _, _, _, _, _)
TokenLoop(token, sender, recipients, amounts, resps, i, acc) ==
    IF i > Len(recipients) THEN acc
    ELSE TokenLoop(token, sender, recipients, amounts, resps, i + 1,
                   TokenStep(token, sender, recipients[i], amounts[i], resps[i], acc))

\* MultiSender::batch_send_token.
batch_send_token(st0, sender, token, recipients, amounts, resps) ==
    LET sum == SumAmounts(amounts, 1, 0)
    IN  IF Len(recipients) # Len(amounts) THEN Revert(st0, "ArrayLengthMismatch")
        ELSE IF Len(recipients) = 0 THEN Revert(st0, "InvalidRecipient")
        ELSE IF token = ZERO THEN Revert(st0, "InvalidRecipient")
        ELSE IF sum.zero THEN Revert(st0, "InvalidAmount")
        ELSE LET looped == TokenLoop(token, sender, recipients, amounts, resps, 1,
                                     [successful_transfers |-> 0, trace |-> <<>>])
                 stored == UpdateStatistics(st0, sender, looped.successful_transfers)
             IN  Outcome(stored, "Ok",
                         looped.trace \o StatsTrace \o
                         <<BatchTokenTransfer(sender, token, sum.total_amount,
                                              looped.successful_transfers)>>)

----------------------------------------------------------------------------
(* Administrative operations. *)

\* The drain sending all but one unit of the held balance.
Withdraw_KeepsOne(st, accepts) ==
    LET held == st.balance[Self]
    IN  IF held > 0
        THEN [st |-> [st EXCEPT !.balance = transfer_eth(@, st.owner, held - 1, accepts)],
              trace |-> <<TransferEthEff(st.owner, held - 1,
                                         transfer_eth_ok(st.balance, held - 1, accepts))>>]
        ELSE [st |-> st, trace |-> <<>>]

\* The drain both variants share once the caller is known to be the owner.
Withdraw(st, accepts) ==
    LET held == st.balance[Self]
    IN  IF held > 0
        THEN [st |-> [st EXCEPT !.balance = transfer_eth(@, st.owner, held, accepts)],
              trace |-> <<TransferEthEff(st.owner, held,
                                         transfer_eth_ok(st.balance, held, accepts))>>]
        ELSE [st |-> st, trace |-> <<>>]

\* MultiSender::emergency_withdraw, typed-error variant (Ownable::only_owner).
emergency_withdraw_typed(st0, caller, accepts) ==
    IF caller # st0.owner THEN Revert(st0, "UnauthorizedAccount")
    ELSE LET w == Withdraw(st0, accepts) IN Outcome(w.st, "Ok", w.trace)

\* The silent drain without its owner comparison.
emergency_withdraw_silent_AnyCaller(st0, caller, accepts) ==
    LET w == Withdraw(st0, accepts) IN Outcome(w.st, "()", w.trace)

\* MultiSender::emergency_withdraw, silent variant.
emergency_withdraw_silent(st0, caller, accepts) ==
    IF caller # st0.owner THEN Outcome(st0, "()", <<>>)
    ELSE LET w == Withdraw(st0, accepts) IN Outcome(w.st, "()", w.trace)

\* IOwnable::transfer_ownership, typed-error variant (Ownable).
transfer_ownership_typed(st0, caller, new_owner) ==
    IF caller # st0.owner THEN Revert(st0, "UnauthorizedAccount")
    ELSE IF new_owner = ZERO THEN Revert(st0, "InvalidOwner")
    ELSE Outcome([st0 EXCEPT !.owner = new_owner], "Ok", <<StoreEff("set_owner")>>)

\* IOwnable::renounce_ownership, typed-error variant (Ownable).
renounce_ownership(st0, caller) ==
    IF caller # st0.owner THEN Revert(st0, "UnauthorizedAccount")
    ELSE Outcome([st0 EXCEPT !.owner = ZERO], "Ok", <<StoreEff("set_owner")>>)

\* The silent ownership transfer without its owner comparison.
transfer_ownership_silent_AnyCaller(st0, caller, new_owner) ==
    IF new_owner = ZERO THEN Outcome(st0, "()", <<>>)
    ELSE Outcome([st0 EXCEPT !.owner = new_owner], "()", <<StoreEff("set_owner")>>)

\* MultiSender::transfer_ownership, silent variant.
transfer_ownership_silent(st0, caller, new_owner) ==
    IF caller # st0.owner \/ new_owner = ZERO THEN Outcome(st0, "()", <<>>)
    ELSE Outcome([st0 EXCEPT !.owner = new_owner], "()", <<StoreEff("set_owner")>>)

\* MultiSender::receive_ether: payable, empty body.
receive_ether(st0, sender, msg_value) ==
    Outcome([st0 EXCEPT !.balance = Credit(@, sender, msg_value)], "()", <<>>)

----------------------------------------------------------------------------
(* Construction, accessors and cost estimators. *)

\* The storage writes of both constructors.
ConstructorTrace == <<StoreEff("set_owner"), StoreEff("set_total_transactions"),
                      StoreEff("set_total_recipients")>>

\* MultiSender::constructor, typed-error variant.  #[constructor] makes the
\* SDK run it once: executed says that it has run before, and a further
\* call is refused before the body.  Ownable::constructor refuses ZERO.
constructor_typed(st0, executed, initial_owner) ==
    IF executed THEN Revert(st0, "ConstructorAlreadyCalled")
    ELSE IF initial_owner = ZERO THEN Revert(st0, "InvalidOwner")
    ELSE Outcome([st0 EXCEPT !.owner = initial_owner,
                             !.total_transactions = 0,
                             !.total_recipients = 0],
                 "Ok", ConstructorTrace)

\* The silent constructor running its body on every call.
constructor_silent_Unguarded(st0, executed, initial_owner) ==
    Outcome([st0 EXCEPT !.owner = initial_owner,
                        !.total_transactions = 0,
                        !.total_recipients = 0],
            "()", ConstructorTrace)

\* MultiSender::constructor, silent variant: any initial_owner is stored.
constructor_silent(st0, executed, initial_owner) ==
    IF executed THEN Revert(st0, "ConstructorAlreadyCalled")
    ELSE Outcome([st0 EXCEPT !.owner = initial_owner,
                             !.total_transactions = 0,
                             !.total_recipients = 0],
                 "()", ConstructorTrace)

\* What a read-only call hands back: an address or a number.
Returned(addr, amount) == Eff("return", addr, amount, "")

\* owner(), total_transactions(), total_recipients() and
\* user_transaction_count(user): reads of one storage slot.
get_owner(st0) == Outcome(st0, "()", <<Returned(st0.owner, 0)>>)
get_total_transactions(st0) ==
    Outcome(st0, "()", <<Returned(ZERO, st0.total_transactions)>>)
get_total_recipients(st0) ==
    Outcome(st0, "()", <<Returned(ZERO, st0.total_recipients)>>)
get_user_transaction_count(st0, user) ==
    Outcome(st0, "()", <<Returned(ZERO, st0.user_transaction_count[user])>>)

\* The constants of the two estimators.
base_gas == 21000
eth_per_recipient_gas == 23000
token_per_recipient_gas == 65000

\* MultiSender::estimate_batch_eth_gas.  For the counts of the model the
\* product and the sum stay far below 2^256, so no wrap-around is modelled.
estimate_batch_eth_gas(recipient_count) ==
    base_gas + (eth_per_recipient_gas * recipient_count)

\* The asset estimator charging the native per-recipient cost.
estimate_batch_token_gas_EthRate(recipient_count) ==
    base_gas + (eth_per_recipient_gas * recipient_count)

\* MultiSender::estimate_batch_token_gas (typed-error variant only).
estimate_batch_token_gas(recipient_count) ==
    base_gas + (token_per_recipient_gas * recipient_count)

----------------------------------------------------------------------------
(* The state machine. *)

NoSeq == <<>>

Call(op, caller, msg_value, token, recipients, amounts, new_owner) ==
    [op |-> op, caller |-> caller, msg_value |-> msg_value, token |-> token,
     recipients |-> recipients, amounts |-> amounts, new_owner |-> new_owner]

\* A read-only call naming a user, and a call of an estimator.
ViewCall(op, caller, user) ==
    [op |-> op, caller |-> caller, msg_value |-> 0, token |-> ZERO,
     recipients |-> NoSeq, amounts |-> NoSeq, new_owner |-> ZERO, user |-> user]

EstimateCall(op, caller, recipient_count) ==
    [op |-> op, caller |-> caller, msg_value |-> 0, token |-> ZERO,
     recipients |-> NoSeq, amounts |-> NoSeq, new_owner |-> ZERO,
     recipient_count |-> recipient_count]

\* The contract's storage at deployment, before the constructor: every slot
\* zero; the users hold their starting balance.
Blank ==
    State(ZERO, 0, 0, [a \in Address |-> 0],
          [a \in Accounts |-> IF a \in Users THEN InitBalance ELSE 0])

\* The deployment's constructor(initial_owner) call.
Deployed(initial_owner) ==
    IF variant = "typed" THEN constructor_typed(Blank, FALSE, initial_owner)
    ELSE constructor_silent(Blank, FALSE, initial_owner)

\* The state after a deployment whose constructor(initial_owner) succeeded.
Init ==
    /\ variant \in {"typed", "silent"}
    /\ \E initial_owner \in Address :
          /\ Deployed(initial_owner).result \in {"Ok", "()"}
          /\ owner = Deployed(initial_owner).st.owner
          /\ total_transactions = Deployed(initial_owner).st.total_transactions
          /\ total_recipients = Deployed(initial_owner).st.total_recipients
          /\ user_transaction_count =
                Deployed(initial_owner).st.user_transaction_count
          /\ balance = Deployed(initial_owner).st.balance
          /\ last = [call |-> Call("constructor", ZERO, 0, ZERO, NoSeq, NoSeq,
                                   initial_owner),
                     pre |-> Blank,
                     result |-> Deployed(initial_owner).result,
                     trace |-> Deployed(initial_owner).trace]
    /\ calls = 0
    /\ emitted = [batches |-> 0, recipients |-> 0, outcomes |-> 0]

\* No receipt is waiting to be read.
Ready == last.call.op = "none" \/ calls = 0

\* A transaction can be taken up.
CanCall == Ready /\ calls < MaxCalls

\* The log after the notifications of a trace are appended to it.
RECURSIVE Logged(_, _)
Logged(log, trace) ==
    IF trace = <<>> THEN log
    ELSE Logged(IF Head(trace).kind \in {"BatchEthTransfer", "BatchTokenTransfer"}
                THEN [log EXCEPT !.batches = @ + 1,
                                 !.recipients = @ + Head(trace).n]
                ELSE IF Head(trace).kind \in {"TransferSuccess", "TransferFailed"}
                THEN [log EXCEPT !.outcomes = @ + 1]
                ELSE log,
                Tail(trace))

\* One transaction: the handler's outcome becomes the chain state.
Commit(call, out) ==
    /\ calls' = calls + 1
    /\ emitted' = Logged(emitted, out.trace)
    /\ owner' = out.st.owner
    /\ total_transactions' = out.st.total_transactions
    /\ total_recipients' = out.st.total_recipients
    /\ user_transaction_count' = out.st.user_transaction_count
    /\ balance' = out.st.balance
    /\ last' = [call |-> call, pre |-> Cur, result |-> out.result,
                trace |-> out.trace]
    /\ UNCHANGED variant

Values(sender) == {v \in U256 : v <= balance[sender]}

\* Whether each callee accepts the value sent to it; nothing is sent to ZERO,
\* so its entry is fixed.
Accepts(recipients) ==
    {f \in [1 .. Len(recipients) -> BOOLEAN] :
        \A i \in 1 .. Len(recipients) : recipients[i] = ZERO => f[i]}

\* What the ledger answers to each transferFrom; ZERO is never asked.
Answers(recipients) ==
    {f \in [1 .. Len(recipients) -> Responses] :
        \A i \in 1 .. Len(recipients) : recipients[i] = ZERO => f[i] = "true"}

BatchSendEth ==
    /\ CanCall
    /\ \E sender \in Users, recipients \in SeqsUpTo(Address, MaxLen),
       amounts \in SeqsUpTo(U256, MaxLen), refund_accepts \in BOOLEAN :
      \E msg_value \in Values(sender),
         accepts \in Accepts(recipients) :
        Commit(Call("batch_send_eth", sender, msg_value, ZERO,
                    recipients, amounts, ZERO),
               IF variant = "typed"
               THEN batch_send_eth_typed(Cur, sender, msg_value, recipients,
                                         amounts, accepts, refund_accepts)
               ELSE batch_send_eth_silent(Cur, sender, msg_value, recipients,
                                          amounts, accepts, refund_accepts))

BatchSendToken ==
    /\ CanCall
    /\ variant = "typed"
    /\ \E sender \in Users, token \in {ZERO, Token},
          recipients \in SeqsUpTo(Address, MaxLen),
          amounts \in SeqsUpTo(U256, MaxLen) :
         \E resps \in Answers(recipients) :
           Commit(Call("batch_send_token", sender, 0, token,
                       recipients, amounts, ZERO),
                  batch_send_token(Cur, sender, token, recipients, amounts, resps))

EmergencyWithdraw ==
    /\ CanCall
    /\ \E caller \in Users, accepts \in BOOLEAN :
      Commit(Call("emergency_withdraw", caller, 0, ZERO, NoSeq, NoSeq, ZERO),
             IF variant = "typed"
             THEN emergency_withdraw_typed(Cur, caller, accepts)
             ELSE emergency_withdraw_silent(Cur, caller, accepts))

TransferOwnership ==
    /\ CanCall
    /\ \E caller \in Users, new_owner \in Address :
      Commit(Call("transfer_ownership", caller, 0, ZERO, NoSeq, NoSeq, new_owner),
             IF variant = "typed"
             THEN transfer_ownership_typed(Cur, caller, new_owner)
             ELSE transfer_ownership_silent(Cur, caller, new_owner))

RenounceOwnership ==
    /\ CanCall
    /\ variant = "typed"
    /\ \E caller \in Users :
         Commit(Call("renounce_ownership", caller, 0, ZERO, NoSeq, NoSeq, ZERO),
                renounce_ownership(Cur, caller))

ReceiveEther ==
    /\ CanCall
    /\ \E sender \in Users :
      \E msg_value \in Values(sender) :
        Commit(Call("receive_ether", sender, msg_value, ZERO, NoSeq, NoSeq, ZERO),
               receive_ether(Cur, sender, msg_value))

\* A constructor call after deployment.
Constructor ==
    /\ CanCall
    /\ \E caller \in Users, initial_owner \in Address :
         Commit(Call("constructor", caller, 0, ZERO, NoSeq, NoSeq, initial_owner),
                IF variant = "typed"
                THEN constructor_typed(Cur, TRUE, initial_owner)
                ELSE constructor_silent(Cur, TRUE, initial_owner))

Owner ==
    /\ CanCall
    /\ \E caller \in Users :
         Commit(ViewCall("owner", caller, ZERO), get_owner(Cur))

TotalTransactions ==
    /\ CanCall
    /\ \E caller \in Users :
         Commit(ViewCall("total_transactions", caller, ZERO),
                get_total_transactions(Cur))

TotalRecipients ==
    /\ CanCall
    /\ \E caller \in Users :
         Commit(ViewCall("total_recipients", caller, ZERO),
                get_total_recipients(Cur))

UserTransactionCount ==
    /\ CanCall
    /\ \E caller \in Users, user \in Address :
         Commit(ViewCall("user_transaction_count", caller, user),
                get_user_transaction_count(Cur, user))

EstimateBatchEthGas ==
    /\ CanCall
    /\ \E caller \in Users, recipient_count \in 0 .. MaxCount :
         Commit(EstimateCall("estimate_batch_eth_gas", caller, recipient_count),
                Outcome(Cur, "()",
                        <<Returned(ZERO, estimate_batch_eth_gas(recipient_count))>>))

EstimateBatchTokenGas ==
    /\ CanCall
    /\ variant = "typed"
    /\ \E caller \in Users, recipient_count \in 0 .. MaxCount :
         Commit(EstimateCall("estimate_batch_token_gas", caller, recipient_count),
                Outcome(Cur, "()",
                        <<Returned(ZERO, estimate_batch_token_gas(recipient_count))>>))

\* The receipt of the last transaction is read and dropped; the chain state
\* stays as the transaction left it.
Ack ==
    /\ ~Ready
    /\ last' = [call |-> Call("none", ZERO, 0, ZERO, NoSeq, NoSeq, ZERO),
                pre |-> Cur, result |-> "", trace |-> <<>>]
    /\ UNCHANGED <<variant, owner, total_transactions, total_recipients,
                   user_transaction_count, balance, calls, emitted>>

Next ==
    \/ Ack
    \/ BatchSendEth
    \/ BatchSendToken
    \/ EmergencyWithdraw
    \/ TransferOwnership
    \/ RenounceOwnership
    \/ ReceiveEther
    \/ Constructor
    \/ Owner
    \/ TotalTransactions
    \/ TotalRecipients
    \/ UserTransactionCount
    \/ EstimateBatchEthGas
    \/ EstimateBatchTokenGas

Spec == Init /\ [][Next]_vars

----------------------------------------------------------------------------
(* Vocabulary of the claims: what the last transaction was given, and what *)
(* its trace shows.                                                        *)

In == last.call
Pre == last.pre
Trace == last.trace

IsEth == In.op = "batch_send_eth"
IsToken == In.op = "batch_send_token"
IsBatch == IsEth \/ IsToken

\* The sum of a sequence of amounts as a mathematical integer.
RECURSIVE SumSeq(_)
SumSeq(q) == IF q = <<>> THEN 0 ELSE q[1] + SumSeq(Tail(q))

\* The total the code works with: the sum reduced to the width of U256.
DeclaredTotal == SumSeq(In.amounts) % Modulus
Overflows == SumSeq(In.amounts) >= Modulus

\* The batch passed every precondition check the handlers make.
Accepted ==
    /\ IsBatch
    /\ Len(In.recipients) = Len(In.amounts)
    /\ Len(In.recipients) > 0
    /\ IsToken => In.token # ZERO
    /\ \A i \in 1 .. Len(In.amounts) : In.amounts[i] # 0
    /\ IsEth => In.msg_value >= DeclaredTotal

Rejected == IsBatch /\ ~Accepted

\* Positions of the trace holding an effect of one of the given kinds.
At(kinds) == {i \in 1 .. Len(Trace) : Trace[i].kind \in kinds}

OutcomeKinds == {"TransferSuccess", "TransferFailed"}
AggregateKinds == {"BatchEthTransfer", "BatchTokenTransfer"}
StoreKinds == {"set_total_transactions", "set_total_recipients",
               "insert_user_transaction_count"}

\* The position of the aggregate notification (0 when there is none).
AggAt == IF At(AggregateKinds) = {} THEN 0
         ELSE CHOOSE i \in At(AggregateKinds) : TRUE

\* The transfers that moved value to a recipient / that the ledger granted.
Delivered ==
    {i \in 1 .. Len(Trace) :
        \/ Trace[i].kind = "transfer_eth" /\ Trace[i].reason = "ok" /\ i < AggAt
        \/ Trace[i].kind = "call_contract" /\ Trace[i].reason = "true"}

\* The k-th position of the trace (in order) among those in the set S.
RECURSIVE Nth(_, _)
Nth(S, k) ==
    LET m == CHOOSE i \in S : \A j \in S : i <= j
    IN  IF k = 1 THEN m ELSE Nth(S \ {m}, k - 1)

\* The terminal outcome recorded for the recipient at input position k.
OutcomeOf(k) == Trace[Nth(At(OutcomeKinds), k)]

----------------------------------------------------------------------------
\* C1: after a call to batch_send_eth or batch_send_token, total_transactions
\* is its value before the call plus exactly 1 if the call passed all the
\* precondition checks, and is its value before the call if a check
\* rejected it.
C1_TotalTransactionsStep ==
    IsBatch =>
        total_transactions =
            Pre.total_transactions + (IF Accepted THEN 1 ELSE 0)

\* An accepted batch and a rejected one, each from a state in which a batch
\* had been counted before.
C1_Witness ==
    /\ IsBatch /\ Accepted
    /\ Pre.total_transactions = 1 /\ total_transactions = 2

\* C2: for every accepted batch the success tally is at most the number of
\* recipients, equals the number of recipients whose transfer succeeded, and
\* total_recipients grows by exactly that number.
C2_SuccessTally ==
    Accepted =>
        /\ AggAt # 0
        /\ Trace[AggAt].n <= Len(In.recipients)
        /\ Trace[AggAt].n = Cardinality(Delivered)
        /\ Trace[AggAt].n = Cardinality(At({"TransferSuccess"}))
        /\ total_recipients = Pre.total_recipients + Cardinality(Delivered)

\* An accepted batch of two recipients of which exactly one was served, run
\* from a state whose total_recipients was already positive.
C2_Witness ==
    /\ Accepted
    /\ Len(In.recipients) = 2
    /\ Cardinality(Delivered) = 1
    /\ Pre.total_recipients > 0
    /\ total_recipients = Pre.total_recipients + 1

\* The amounts delivered to account u at input positions 1 .. k, going by
\* the recorded outcomes.
RECURSIVE DeliveredTo(_, _)
DeliveredTo(u, k) ==
    IF k = 0 THEN 0
    ELSE DeliveredTo(u, k - 1) +
         (IF In.recipients[k] = u /\ OutcomeOf(k).kind = "TransferSuccess"
          THEN In.amounts[k] ELSE 0)

\* The refund attempt of a native batch: the transfer after the aggregate
\* notification.
RefundAt == {i \in At({"transfer_eth"}) : i > AggAt}
Refunded ==
    IF \E i \in RefundAt : Trace[i].reason = "ok"
    THEN Trace[CHOOSE i \in RefundAt : TRUE].amount ELSE 0

\* The transfer attempts made for recipients (native sends, ledger calls).
Attempts == {i \in At({"transfer_eth", "call_contract"}) : i < AggAt}
NonNull == {k \in 1 .. Len(In.recipients) : In.recipients[k] # ZERO}

\* C3: once a batch has passed its preconditions, every recipient gets
\* exactly one terminal outcome, in input order, every non-null recipient is
\* attempted whatever happened to the others, the statistics are updated and
\* the call returns success; the transfers that succeeded stay delivered.
C3_RunsToCompletion ==
    Accepted =>
        /\ last.result = (IF variant = "typed" THEN "Ok" ELSE "()")
        /\ Cardinality(At(OutcomeKinds)) = Len(In.recipients)
        /\ \A k \in 1 .. Len(In.recipients) :
              /\ OutcomeOf(k).addr = In.recipients[k]
              /\ OutcomeOf(k).amount = In.amounts[k]
        /\ Cardinality(Attempts) = Cardinality(NonNull)
        /\ \A j \in 1 .. Cardinality(NonNull) :
              /\ Trace[Nth(Attempts, j)].addr = In.recipients[Nth(NonNull, j)]
              /\ Trace[Nth(Attempts, j)].amount = In.amounts[Nth(NonNull, j)]
        /\ At(StoreKinds) # {}
        /\ total_transactions = Pre.total_transactions + 1
        /\ user_transaction_count[In.caller] =
              Pre.user_transaction_count[In.caller] + 1
        /\ IsEth => \A u \in Users :
              balance[u] = Pre.balance[u] + DeliveredTo(u, Len(In.recipients))
                 + (IF u = In.caller THEN Refunded - In.msg_value ELSE 0)
        /\ IsToken => balance = Pre.balance

\* A native batch whose first transfer fails and whose second succeeds.
C3_Witness ==
    /\ Accepted /\ IsEth
    /\ Len(In.recipients) = 2
    /\ OutcomeOf(1) = TransferFailed(In.recipients[1], In.amounts[1], "Transfer failed")
    /\ OutcomeOf(2).kind = "TransferSuccess"
    /\ balance[In.recipients[2]] > Pre.balance[In.recipients[2]]

\* C4: in both modes a null recipient gets Failure(invalid-recipient) and
\* never Success: nothing is sent to it, the ledger is not called for it, it
\* is not counted, and the recipients after it are still processed.
C4_NullRecipient ==
    Accepted =>
        /\ Cardinality(At(OutcomeKinds)) = Len(In.recipients)
        /\ \A k \in 1 .. Len(In.recipients) :
              In.recipients[k] = ZERO =>
                 OutcomeOf(k) = TransferFailed(ZERO, In.amounts[k],
                                               "Invalid recipient address")
        /\ \A i \in At({"transfer_eth", "call_contract", "TransferSuccess"}) :
              Trace[i].addr # ZERO
        /\ Trace[AggAt].n <= Cardinality(NonNull)
        /\ balance[ZERO] = Pre.balance[ZERO]

\* A batch whose first recipient is null and whose second is served.
C4_Witness ==
    /\ Accepted
    /\ Len(In.recipients) = 2
    /\ In.recipients[1] = ZERO
    /\ OutcomeOf(1).reason = "Invalid recipient address"
    /\ OutcomeOf(2).kind = "TransferSuccess"
    /\ Trace[AggAt].n = 1

\* The precondition that turns a batch away, going by the checks in their
\* order and by the sum of the amounts as an integer ("" when none does).
ExpectedError ==
    IF Len(In.recipients) # Len(In.amounts) THEN "ArrayLengthMismatch"
    ELSE IF Len(In.recipients) = 0 THEN "InvalidRecipient"
    ELSE IF IsToken /\ In.token = ZERO THEN "InvalidRecipient"
    ELSE IF \E i \in 1 .. Len(In.amounts) : In.amounts[i] = 0 THEN "InvalidAmount"
    ELSE IF IsEth /\ In.msg_value < SumSeq(In.amounts) THEN "InsufficientBalance"
    ELSE ""

\* C5 (as claimed): in both variants a batch call that fails a precondition
\* changes nothing: no transfer, no notification, statistics, per-sender
\* counts and owner unchanged, and the balances of the contract and of the
\* sender as before the call.
C5_RejectedChangesNothing ==
    Rejected =>
        /\ Trace = <<>>
        /\ owner = Pre.owner
        /\ total_transactions = Pre.total_transactions
        /\ total_recipients = Pre.total_recipients
        /\ user_transaction_count = Pre.user_transaction_count
        /\ balance[Self] = Pre.balance[Self]
        /\ balance[In.caller] = Pre.balance[In.caller]

\* C6 (as claimed): in the typed-error variant each failed precondition
\* returns its error before any transfer: ArrayLengthMismatch, InvalidRecipient
\* (empty list, or null token in asset mode), InvalidAmount (a zero amount),
\* InsufficientBalance (native mode, supplied value below the sum of the
\* amounts).
C6_PreconditionErrors ==
    (variant = "typed" /\ IsBatch /\ ExpectedError # "") =>
        /\ last.result = ExpectedError
        /\ Trace = <<>>

\* C7 (as claimed): an accepted native batch with supplied value above the
\* declared total leaves the sender refunded by exactly the difference,
\* however many transfers succeeded; with equal value no refund is attempted.
C7_RefundExact ==
    (Accepted /\ IsEth /\ In.msg_value >= SumSeq(In.amounts)) =>
        /\ balance[In.caller] =
              Pre.balance[In.caller] - In.msg_value
                + DeliveredTo(In.caller, Len(In.recipients))
                + (In.msg_value - SumSeq(In.amounts))
        /\ In.msg_value = SumSeq(In.amounts) => RefundAt = {}

\* C7 (amended): with supplied value above the declared total exactly one
\* refund of supplied value minus declared total is attempted, as the last
\* effect and to the sender; the sender's balance reflects it when the
\* sender accepts it and reflects no refund when the attempt fails, however
\* many transfers succeeded; with equal value no refund is attempted.
C7_RefundBestEffort ==
    (Accepted /\ IsEth /\ In.msg_value >= SumSeq(In.amounts)) =>
        /\ In.msg_value = SumSeq(In.amounts) => RefundAt = {}
        /\ In.msg_value > SumSeq(In.amounts) =>
              /\ RefundAt = {Len(Trace)}
              /\ Trace[Len(Trace)].addr = In.caller
              /\ Trace[Len(Trace)].amount = In.msg_value - SumSeq(In.amounts)
        /\ balance[In.caller] =
              Pre.balance[In.caller] - In.msg_value
                + DeliveredTo(In.caller, Len(In.recipients))
                + (IF \E i \in RefundAt : Trace[i].reason = "ok"
                   THEN In.msg_value - SumSeq(In.amounts) ELSE 0)

\* A native batch of two recipients, one of them not served, with excess
\* value that is refunded to the sender.
C7_Witness ==
    /\ Accepted /\ IsEth
    /\ Len(In.recipients) = 2
    /\ Cardinality(Delivered) = 1
    /\ In.msg_value > SumSeq(In.amounts)
    /\ \E i \in RefundAt : Trace[i].reason = "ok"
    /\ In.caller \notin {In.recipients[1], In.recipients[2]}
    /\ balance[In.caller] = Pre.balance[In.caller] - SumSeq(In.amounts)

\* C8 (as claimed): when the sum of the amounts exceeds the largest U256 the
\* call fails before any transfer and the statistics do not change; the total
\* is never the sum wrapped around.
C8_OverflowRejected ==
    (IsBatch /\ Overflows /\ ExpectedError \in {"", "InsufficientBalance"}) =>
        /\ Trace = <<>>
        /\ last.result # "Ok"
        /\ total_transactions = Pre.total_transactions
        /\ total_recipients = Pre.total_recipients
        /\ user_transaction_count = Pre.user_transaction_count

\* C9: in every accepted batch all the per-recipient attempts and
\* notifications come first, then the statistics update, then the single
\* aggregate notification, and in native mode the refund, if any, last.
C9_EffectOrder ==
    Accepted =>
        /\ Cardinality(At(AggregateKinds)) = 1
        /\ Trace[AggAt].kind =
              (IF IsEth THEN "BatchEthTransfer" ELSE "BatchTokenTransfer")
        /\ At(StoreKinds) = (AggAt - 3) .. (AggAt - 1)
        /\ Cardinality({Trace[i].kind : i \in At(StoreKinds)}) = 3
        /\ \A i \in 1 .. (AggAt - 4) :
              Trace[i].kind \in OutcomeKinds \cup {"transfer_eth", "call_contract"}
        /\ Cardinality({i \in At(OutcomeKinds) : i < AggAt - 3}) = Len(In.recipients)
        /\ Cardinality(Attempts) = Cardinality(NonNull)
        /\ \A i \in Attempts : Trace[i + 1].kind \in OutcomeKinds
        /\ IsToken => Len(Trace) = AggAt
        /\ IsEth => \/ Len(Trace) = AggAt
                    \/ /\ Len(Trace) = AggAt + 1
                       /\ Trace[Len(Trace)].kind = "transfer_eth"
                       /\ Trace[Len(Trace)].addr = In.caller

\* A native batch that served a recipient and then attempted a refund.
C9_Witness ==
    /\ Accepted /\ IsEth
    /\ Cardinality(Delivered) >= 1
    /\ Len(Trace) = AggAt + 1
    /\ Trace[Len(Trace)].kind = "transfer_eth"

\* The notification the claim gives for each response of the ledger.
ClassifiedAs(resp, recipient, amount) ==
    CASE resp = "error" ->
            TransferFailed(recipient, amount, "Token contract call failed")
      [] resp = "undecodable" ->
            TransferFailed(recipient, amount, "Failed to decode transfer result")
      [] resp = "false" ->
            TransferFailed(recipient, amount, "Token transfer returned false")
      [] resp = "true" -> TransferSuccess(recipient, amount)

\* C10: in asset mode each non-null recipient gets exactly one
\* transferFrom(sender, recipient, amount) request; a call error, an
\* undecodable result and a decoded false each give their Failure, decoded
\* true gives Success and alone adds to the tally; none of the failures stops
\* the batch or the statistics update.
C10_TokenClassification ==
    (Accepted /\ IsToken) =>
        /\ last.result = "Ok"
        /\ Cardinality(At({"call_contract"})) = Cardinality(NonNull)
        /\ Cardinality(At(OutcomeKinds)) = Len(In.recipients)
        /\ \A j \in 1 .. Cardinality(NonNull) :
              LET i == Nth(At({"call_contract"}), j)
                  k == Nth(NonNull, j)
              IN  /\ Trace[i].token = In.token
                  /\ Trace[i].from = In.caller
                  /\ Trace[i].addr = In.recipients[k]
                  /\ Trace[i].amount = In.amounts[k]
                  /\ Trace[i + 1] = ClassifiedAs(Trace[i].reason,
                                                 In.recipients[k], In.amounts[k])
                  /\ Trace[i + 1] = OutcomeOf(k)
        /\ Trace[AggAt].n =
              Cardinality({i \in At({"call_contract"}) : Trace[i].reason = "true"})
        /\ total_transactions = Pre.total_transactions + 1
        /\ total_recipients = Pre.total_recipients + Trace[AggAt].n

\* An asset batch whose first request is refused by the ledger in one of the
\* three ways and whose second is granted.
C10_Witness ==
    /\ Accepted /\ IsToken
    /\ Len(In.recipients) = 2
    /\ Cardinality(At({"call_contract"})) = 2
    /\ Trace[Nth(At({"call_contract"}), 1)].reason = "undecodable"
    /\ OutcomeOf(1).reason = "Failed to decode transfer result"
    /\ OutcomeOf(2).kind = "TransferSuccess"
    /\ total_recipients = Pre.total_recipients + 1

----------------------------------------------------------------------------
\* C11: emergency_withdraw called by anyone but the current owner is rejected
\* in both variants: no value is transferred and the balances, the owner and
\* the statistics are as before the call; the typed-error variant answers
\* UnauthorizedAccount, the silent variant returns without effect.
C11_NonOwnerDrainRejected ==
    (In.op = "emergency_withdraw" /\ In.caller # Pre.owner) =>
        /\ Cur = Pre
        /\ Trace = <<>>
        /\ variant = "typed" => last.result = "UnauthorizedAccount"
        /\ variant = "silent" => last.result = "()"

\* A drain attempted by a non-owner while the contract holds value.
C11_Witness ==
    /\ In.op = "emergency_withdraw"
    /\ In.caller # Pre.owner
    /\ Pre.balance[Self] > 0
    /\ balance[Self] = Pre.balance[Self]

----------------------------------------------------------------------------
\* The owner, the statistics and the balances of everyone but the contract
\* and the owner are as before the call.
OnlyDrainMoved ==
    /\ owner = Pre.owner
    /\ total_transactions = Pre.total_transactions
    /\ total_recipients = Pre.total_recipients
    /\ user_transaction_count = Pre.user_transaction_count
    /\ \A a \in Accounts \ {Self, Pre.owner} : balance[a] = Pre.balance[a]

\* C12 as stated: after emergency_withdraw by the current owner the contract
\* holds nothing and the owner's balance has grown by the whole balance the
\* contract held before the call.
C12_DrainsAll ==
    (In.op = "emergency_withdraw" /\ In.caller = Pre.owner) =>
        /\ balance[Self] = 0
        /\ balance[Pre.owner] = Pre.balance[Pre.owner] + Pre.balance[Self]

\* C12: emergency_withdraw by the current owner makes at most one transfer,
\* to the owner and of the contract's entire held balance, never of a part;
\* if the owner accepts it the contract holds nothing afterwards and the
\* owner's balance has grown by the whole pre-call balance, and if the
\* transfer fails every balance is as before; the call succeeds either way.
C12_DrainAllOrNothing ==
    (In.op = "emergency_withdraw" /\ In.caller = Pre.owner) =>
        /\ last.result \in {"Ok", "()"}
        /\ OnlyDrainMoved
        /\ IF Pre.balance[Self] = 0
           THEN Trace = <<>> /\ balance = Pre.balance
           ELSE /\ Len(Trace) = 1
                /\ Trace[1].kind = "transfer_eth"
                /\ Trace[1].addr = Pre.owner
                /\ Trace[1].amount = Pre.balance[Self]
                /\ IF Trace[1].reason = "ok"
                   THEN /\ balance[Self] = 0
                        /\ balance[Pre.owner] =
                              Pre.balance[Pre.owner] + Pre.balance[Self]
                   ELSE balance = Pre.balance

\* The owner drains a contract that holds more than one unit and receives
\* all of it.
C12_Witness ==
    /\ In.op = "emergency_withdraw"
    /\ In.caller = Pre.owner
    /\ Pre.balance[Self] > 1
    /\ balance[Self] = 0
    /\ balance[Pre.owner] = Pre.balance[Pre.owner] + Pre.balance[Self]

----------------------------------------------------------------------------
\* C13: in every step the owner changes only if the step is a
\* transfer_ownership call (or, in the typed-error variant, a
\* renounce_ownership call) made by the account that was the owner before
\* the step; every other step, and those two operations called by anyone
\* else, leave the owner as it was.
C13_OwnerChangesOnlyByOwner ==
    [][owner' # owner =>
          /\ last'.call.caller = owner
          /\ \/ last'.call.op = "transfer_ownership"
             \/ last'.call.op = "renounce_ownership" /\ variant = "typed"]_vars

\* The owner has handed the contract to another account, in the second call
\* of a run.
C13_Witness ==
    /\ In.op = "transfer_ownership"
    /\ In.caller = Pre.owner
    /\ owner = In.new_owner
    /\ owner # Pre.owner
    /\ calls = 2

----------------------------------------------------------------------------
\* The statistics as one value.
Statistics == <<total_transactions, total_recipients, user_transaction_count>>

\* C14: in every step total_transactions, total_recipients and each
\* per-sender count do not decrease; they change only in a step that is an
\* accepted batch call, whose statistics update is applied exactly once
\* (one batch more, one more for the sender, the batch's tally more
\* recipients); rejected batches and all other operations leave them as
\* they were.
C14_StatisticsMonotone ==
    [][/\ total_transactions' >= total_transactions
       /\ total_recipients' >= total_recipients
       /\ \A a \in Address :
             user_transaction_count'[a] >= user_transaction_count[a]
       /\ Statistics' # Statistics => Accepted'
       /\ (Accepted' /\ calls' # calls) =>
             /\ \A k \in StoreKinds : Cardinality(At({k}))' = 1
             /\ total_transactions' = total_transactions + 1
             /\ total_recipients' = total_recipients + Trace'[AggAt'].n
             /\ user_transaction_count' =
                   [user_transaction_count EXCEPT ![In'.caller] = @ + 1]]_vars

\* A second accepted batch, adding to statistics that an earlier batch had
\* already raised.
C14_Witness ==
    /\ Accepted
    /\ Pre.total_transactions = 1 /\ total_transactions = 2
    /\ Pre.total_recipients = 2 /\ total_recipients = 3
    /\ Pre.user_transaction_count[In.caller] = 1
    /\ user_transaction_count[In.caller] = 2

----------------------------------------------------------------------------
\* C15: every accepted batch emits exactly one aggregate notification and a
\* rejected one none; the notification carries the sender, the declared
\* total (the sum of all requested amounts) and the success count, with the
\* asset identifier in asset mode, and the stored statistics already include
\* the batch when it is emitted; so after any sequence of calls the
\* aggregate notifications in the log number total_transactions and their
\* recipientCount fields sum to total_recipients.
C15_AggregateNotification ==
    /\ IsBatch =>
          Cardinality(At(AggregateKinds)) = (IF Accepted THEN 1 ELSE 0)
    /\ Accepted =>
          /\ Trace[AggAt].kind =
                (IF IsEth THEN "BatchEthTransfer" ELSE "BatchTokenTransfer")
          /\ Trace[AggAt].addr = In.caller
          /\ Trace[AggAt].amount = SumSeq(In.amounts)
          /\ Trace[AggAt].n = Cardinality(At({"TransferSuccess"}))
          /\ IsToken => Trace[AggAt].token = In.token
          /\ \A k \in StoreKinds : \E i \in At({k}) : i < AggAt
          /\ total_transactions = Pre.total_transactions + 1
          /\ total_recipients = Pre.total_recipients + Trace[AggAt].n
    /\ emitted.batches = total_transactions
    /\ emitted.recipients = total_recipients

----------------------------------------------------------------------------
\* The sum of the amounts at input positions 1 .. k whose recorded outcome
\* is of the given kind.
RECURSIVE OutcomeTotal(_, _)
OutcomeTotal(kind, k) ==
    IF k = 0 THEN 0
    ELSE OutcomeTotal(kind, k - 1) +
         (IF OutcomeOf(k).kind = kind THEN In.amounts[k] ELSE 0)

\* C16: in native mode the value of a failed recipient is neither delivered
\* nor refunded: after an accepted batch whose refund did not fail the
\* contract's balance has grown by exactly the sum of the amounts of the
\* recipients with a Failure outcome, so that the supplied value is the
\* delivered total plus the refund plus that growth; and the contract's
\* balance goes down only in an emergency_withdraw called by the owner.
C16_FailedValueRetained ==
    /\ (Accepted /\ IsEth /\ \A i \in RefundAt : Trace[i].reason = "ok") =>
          LET n == Len(In.recipients)
              increase == balance[Self] - Pre.balance[Self]
          IN  /\ increase = OutcomeTotal("TransferFailed", n)
              /\ In.msg_value =
                    OutcomeTotal("TransferSuccess", n) + Refunded + increase
    /\ balance[Self] < Pre.balance[Self] =>
          In.op = "emergency_withdraw" /\ In.caller = Pre.owner

----------------------------------------------------------------------------
\* C18: the refund is best-effort: when the refund transfer to the sender
\* fails the batch still returns success, the transfers made to the
\* recipients stand, the statistics update and the aggregate notification
\* remain, and the excess that was not refunded is still in the contract's
\* balance.
C18_RefundFailureKept ==
    (Accepted /\ IsEth /\ \E i \in RefundAt : Trace[i].reason = "err") =>
        LET n == Len(In.recipients)
            excess == Trace[CHOOSE i \in RefundAt : TRUE].amount
        IN  /\ last.result = (IF variant = "typed" THEN "Ok" ELSE "()")
            /\ AggAt # 0
            /\ total_transactions = Pre.total_transactions + 1
            /\ total_recipients = Pre.total_recipients + Trace[AggAt].n
            /\ user_transaction_count[In.caller] =
                  Pre.user_transaction_count[In.caller] + 1
            /\ \A u \in Users :
                  balance[u] = Pre.balance[u] + DeliveredTo(u, n)
                               - (IF u = In.caller THEN In.msg_value ELSE 0)
            /\ balance[Self] >= excess

----------------------------------------------------------------------------
\* What the last read-only call handed back.
ReturnedValue == Trace[1].amount

\* C19: the cost estimators are pure functions of the recipient count:
\* estimate_batch_eth_gas(n) = 21000 + 23000 * n and
\* estimate_batch_token_gas(n) = 21000 + 65000 * n; they leave the state as
\* it was, both results are greater than 0, and for n >= 1 the asset
\* estimate is greater than the native estimate.
C19_EstimatorsPure ==
    /\ In.op = "estimate_batch_eth_gas" =>
          /\ Cur = Pre
          /\ Len(Trace) = 1 /\ Trace[1].kind = "return"
          /\ ReturnedValue = 21000 + 23000 * In.recipient_count
          /\ ReturnedValue > 0
    /\ In.op = "estimate_batch_token_gas" =>
          /\ Cur = Pre
          /\ Len(Trace) = 1 /\ Trace[1].kind = "return"
          /\ ReturnedValue = 21000 + 65000 * In.recipient_count
          /\ ReturnedValue > 0
          /\ In.recipient_count >= 1 =>
                ReturnedValue > estimate_batch_eth_gas(In.recipient_count)

\* The asset estimate for three recipients, as in the crate's unit test,
\* asked of a contract that has already counted a batch.
C19_Witness ==
    /\ In.op = "estimate_batch_token_gas"
    /\ In.recipient_count = 3
    /\ ReturnedValue = 216000
    /\ total_transactions = 1

----------------------------------------------------------------------------
----------------------------------------------------------------------------
\* The sum of the per-sender counts of the accounts in S.
RECURSIVE CountSum(_, _)
CountSum(count, S) ==
    IF S = {} THEN 0
    ELSE LET a == CHOOSE x \in S : TRUE
         IN  count[a] + CountSum(count, S \ {a})

\* C21: after any sequence of calls total_transactions is the sum over all
\* senders of user_transaction_count; an accepted batch adds exactly 1 to
\* the count of its sender and leaves every other count alone (a rejected
\* one leaves them all alone); and total_recipients is at most the number
\* of recipient entries submitted in accepted batches, each of which has
\* one per-recipient notification in the log.
C21_CountsAddUp ==
    /\ total_transactions = CountSum(user_transaction_count, Address)
    /\ Accepted =>
          /\ user_transaction_count =
                [Pre.user_transaction_count EXCEPT ![In.caller] = @ + 1]
          /\ Cardinality(At(OutcomeKinds)) = Len(In.recipients)
    /\ Rejected =>
          /\ user_transaction_count = Pre.user_transaction_count
          /\ At(OutcomeKinds) = {}
    /\ total_recipients <= emitted.outcomes

\* Two accepted batches by two different senders, the second with two
\* entries of which only one was served.
C21_Witness ==
    /\ Accepted
    /\ Len(In.recipients) = 2
    /\ total_transactions = 2
    /\ user_transaction_count[In.caller] = 1
    /\ \E a \in Users \ {In.caller} : user_transaction_count[a] = 1
    /\ total_recipients < emitted.outcomes
    /\ total_recipients = Pre.total_recipients + 1

----------------------------------------------------------------------------
\* The operations both variants have and the claim compares.
Compared == In.op \in {"batch_send_eth", "emergency_withdraw", "transfer_ownership"}

\* What the callees of the last call could answer: one answer per recipient
\* and one for the refund or the drain.
Envs == [accepts : Accepts(In.recipients), refund_accepts : BOOLEAN]

\* The last call, run by the typed-error variant from the state before it.
TypedRun(env) ==
    CASE In.op = "batch_send_eth" ->
            batch_send_eth_typed(Pre, In.caller, In.msg_value, In.recipients,
                                 In.amounts, env.accepts, env.refund_accepts)
      [] In.op = "emergency_withdraw" ->
            emergency_withdraw_typed(Pre, In.caller, env.refund_accepts)
      [] In.op = "transfer_ownership" ->
            transfer_ownership_typed(Pre, In.caller, In.new_owner)

\* The same call, run by the silent variant from the same state.
SilentRun(env) ==
    CASE In.op = "batch_send_eth" ->
            batch_send_eth_silent(Pre, In.caller, In.msg_value, In.recipients,
                                  In.amounts, env.accepts, env.refund_accepts)
      [] In.op = "emergency_withdraw" ->
            emergency_withdraw_silent(Pre, In.caller, env.refund_accepts)
      [] In.op = "transfer_ownership" ->
            transfer_ownership_silent(Pre, In.caller, In.new_owner)

\* The transfers (refund included) and notifications of a trace, in order.
IsMove(e) == e.kind \in {"transfer_eth"} \cup OutcomeKinds \cup AggregateKinds
Moves(trace) == SelectSeq(trace, IsMove)

SameOwnerAndStatistics(s, t) ==
    /\ s.owner = t.owner
    /\ s.total_transactions = t.total_transactions
    /\ s.total_recipients = t.total_recipients
    /\ s.user_transaction_count = t.user_transaction_count

\* A run that changed neither owner nor statistics and made no transfer and
\* no notification.
NoChange(out) == SameOwnerAndStatistics(out.st, Pre) /\ Moves(out.trace) = <<>>

IsError(out) == out.result \notin {"Ok", "()"}

====
